---------------------------- MODULE Spec2Model ----------------------------
(***************************************************************************)
(* A model of snmpvlantrunk.py: the four-group VLAN bitmask store and its  *)
(* codec between VLAN ids and the space-separated hex octet string.        *)
(*                                                                         *)
(* Representation.                                                         *)
(*  - A Python int used as a bit mask is a record [neg, bits]: with        *)
(*    neg = FALSE it is the sum of 2^b over b in bits, with neg = TRUE it  *)
(*    is the bitwise complement of that sum (a negative int).  |, & and ~  *)
(*    are defined on that form as Python defines them on unbounded ints.   *)
(*  - A Python str is a sequence of one-character strings.                 *)
(*  - A call that can raise returns [raised, ret]; raised is "none" or the *)
(*    name of the exception.                                               *)
(***************************************************************************)
EXTENDS Integers, Sequences, FiniteSets, TLC

\* ------------------------------------------------------------------------
\* Module constants
\* ------------------------------------------------------------------------
MIN_VLAN == 1

MAX_VLAN == 4094

VLAN_GROUP_COUNT == 4

VLAN_GROUP_SIZE == 1024

BYTES_PER_GROUP == VLAN_GROUP_SIZE \div 8

\* ------------------------------------------------------------------------
\* Results of calls
\* ------------------------------------------------------------------------
Ok(x) == [raised |-> "none", ret |-> x]

Raise(e) == [raised |-> e, ret |-> "None"]

\* ------------------------------------------------------------------------
\* Python ints as bit masks
\* ------------------------------------------------------------------------
PyInt(bits) == [neg |-> FALSE, bits |-> bits]

PyZero == PyInt({})

\* x | y
PyOr(x, y) ==
    IF ~x.neg /\ ~y.neg THEN [neg |-> FALSE, bits |-> x.bits \cup y.bits]
    ELSE IF ~x.neg /\ y.neg THEN [neg |-> TRUE, bits |-> y.bits \ x.bits]
    ELSE IF x.neg /\ ~y.neg THEN [neg |-> TRUE, bits |-> x.bits \ y.bits]
    ELSE [neg |-> TRUE, bits |-> x.bits \cap y.bits]

\* x & y
PyAnd(x, y) ==
    IF ~x.neg /\ ~y.neg THEN [neg |-> FALSE, bits |-> x.bits \cap y.bits]
    ELSE IF ~x.neg /\ y.neg THEN [neg |-> FALSE, bits |-> x.bits \ y.bits]
    ELSE IF x.neg /\ ~y.neg THEN [neg |-> FALSE, bits |-> y.bits \ x.bits]
    ELSE [neg |-> TRUE, bits |-> x.bits \cup y.bits]

\* ~x
PyNot(x) == [neg |-> ~x.neg, bits |-> x.bits]

\* bool(x)
PyBool(x) == x.neg \/ x.bits # {}

\* 1 << n, n >= 0
PyShl1(n) == PyInt({n})

SetMax(S) == CHOOSE m \in S : \A x \in S : x <= m

\* ------------------------------------------------------------------------
\* Python strings
\* ------------------------------------------------------------------------
Digits == <<"0", "1", "2", "3", "4", "5", "6", "7", "8", "9">>

HexLower == Digits \o <<"a", "b", "c", "d", "e", "f">>

HexUpper == Digits \o <<"A", "B", "C", "D", "E", "F">>

\* str.isspace() of one character (the characters str.split() splits at)
IsSpace(c) == c \in {" ", "\t", "\n", "\r"}

HexChars == {HexUpper[i] : i \in 1..16} \cup {HexLower[i] : i \in 1..16}

\* the value of each hexadecimal digit, upper or lower case
HexValues ==
    [c \in HexChars |-> (CHOOSE i \in 1..16 : HexUpper[i] = c \/ HexLower[i] = c) - 1]

\* str.upper() of one character
Upper(c) == IF c \in HexChars THEN HexUpper[HexValues[c] + 1] ELSE c

\* the value int(c, 16) of one digit, both cases accepted; -1: not a digit
HexVal(c) == IF c \in HexChars THEN HexValues[c] ELSE -1

\* bin(x).lstrip('0b') of x >= 0: the binary digits, most significant first;
\* bin(0) is '0b0', of which lstrip leaves nothing
bin_lstrip(x) ==
    IF x.bits = {} THEN <<>>
    ELSE LET n == SetMax(x.bits) + 1
         IN  [i \in 1..n |-> IF (n - i) \in x.bits THEN "1" ELSE "0"]

\* str.zfill(width)
zfill(s, width) ==
    IF Len(s) >= width THEN s
    ELSE LET pad == width - Len(s)
         IN  [i \in 1..width |-> IF i <= pad THEN "0" ELSE s[i - pad]]

\* s[::-1]
Reversed(s) == LET n == Len(s) IN [i \in 1..n |-> s[n - i + 1]]

\* int(s, 2) of a string of binary digits
int_base2(s) ==
    LET n == Len(s)
    IN  IF n = 0 THEN Raise("ValueError")
        ELSE Ok(PyInt({n - i : i \in {j \in 1..n : s[j] = "1"}}))

\* the bit positions set in a hexadecimal digit of value d
NibbleBits == [d \in 0..15 |-> {k \in 0..3 : (d \div (2 ^ k)) % 2 = 1}]

\* int(s, 16)
int_base16(s) ==
    LET n == Len(s)
        vals == [i \in 1..n |-> HexVal(s[i])]
    IN  IF n = 0 \/ \E i \in 1..n : vals[i] < 0 THEN Raise("ValueError")
        ELSE Ok(PyInt(UNION {{4 * (n - i) + j : j \in NibbleBits[vals[i]]} :
                             i \in {k \in 1..n : vals[k] # 0}}))

\* ''.join(s.split())
without_whitespace(s) == SelectSeq(s, LAMBDA c : ~IsSpace(c))

RECURSIVE SumPow2(_)
SumPow2(S) ==
    IF S = {} THEN 0 ELSE LET j == CHOOSE j \in S : TRUE IN 2 ^ j + SumPow2(S \ {j})

\* int.to_bytes(length, 'big'): byte k, 1-based, holds bits 8(length-k)..8(length-k)+7
to_bytes(x, length) ==
    IF x.neg \/ \E b \in x.bits : b >= 8 * length THEN Raise("OverflowError")
    ELSE Ok([k \in 1..length |->
                SumPow2({b - 8 * (length - k) :
                            b \in {c \in x.bits : c \div 8 = length - k}})])

\* bytes.hex()
bytes_hex(bs) ==
    [p \in 1..(2 * Len(bs)) |->
        IF p % 2 = 1 THEN HexLower[(bs[(p + 1) \div 2] \div 16) + 1]
        ELSE HexLower[(bs[p \div 2] % 16) + 1]]

\* str.upper()
str_upper(s) == [p \in 1..Len(s) |-> Upper(s[p])]

\* ' '.join(l) of a list of two-character strings
join_space(l) ==
    LET n == Len(l)
    IN  IF n = 0 THEN <<>>
        ELSE [p \in 1..(3 * n - 1) |->
                IF p % 3 = 0 THEN " " ELSE l[((p - 1) \div 3) + 1][((p - 1) % 3) + 1]]

\* ------------------------------------------------------------------------
\* Module functions
\* ------------------------------------------------------------------------
validate_vlan(vlan_id) ==
    IF vlan_id >= MIN_VLAN /\ vlan_id <= MAX_VLAN THEN Ok(TRUE) ELSE Raise("ValueError")

\* group_loop with the loop test test_value >= VLAN_GROUP_SIZE
RECURSIVE group_loop_inclusive(_, _)
group_loop_inclusive(group, test_value) ==
    IF test_value >= VLAN_GROUP_SIZE
    THEN group_loop_inclusive(group + 1, test_value - VLAN_GROUP_SIZE)
    ELSE group

RECURSIVE group_loop(_, _)
group_loop(group, test_value) ==
    IF test_value > VLAN_GROUP_SIZE
    THEN group_loop(group + 1, test_value - VLAN_GROUP_SIZE)
    ELSE group

group_for_vlan(vlan_id) ==
    IF validate_vlan(vlan_id).raised # "none" THEN Raise("ValueError")
    ELSE Ok(group_loop(0, vlan_id))

\* vlan_bit without the - 1 of the shift
vlan_bit_off_by_one(vlan_id) ==
    IF validate_vlan(vlan_id).raised # "none" THEN Raise("ValueError")
    ELSE Ok(PyShl1(vlan_id - (group_for_vlan(vlan_id).ret * VLAN_GROUP_SIZE)))

vlan_bit(vlan_id) ==
    IF validate_vlan(vlan_id).raised # "none" THEN Raise("ValueError")
    ELSE LET shift == vlan_id - (group_for_vlan(vlan_id).ret * VLAN_GROUP_SIZE) - 1
         IN  IF shift < 0 THEN Raise("ValueError") ELSE Ok(PyShl1(shift))

vlan_in_group(vlan_id, group) ==
    LET result == vlan_id - (VLAN_GROUP_SIZE * group)
    IN  result >= 0 /\ result <= VLAN_GROUP_SIZE

bit_to_vlan(bit_value, group) ==
    IF ~PyBool(bit_value) THEN Raise("ValueError")
    ELSE IF bit_value.neg THEN Raise("ValueError")
    ELSE IF Cardinality(bit_value.bits) > 1 THEN Raise("ValueError")
    ELSE Ok(Len(bin_lstrip(bit_value)) + (VLAN_GROUP_SIZE * group))

\* the loop over range(VLAN_GROUP_SIZE): the bit values whose check_value is
\* not zero, in the order of the loop, each appended as its bit_to_vlan
bits_to_vlans(bit_values, group) ==
    LET check_value(bit_value) == PyAnd(PyShl1(bit_value), bit_values)
        hits == SelectSeq([i \in 1..VLAN_GROUP_SIZE |-> i - 1],
                          LAMBDA bit_value : PyBool(check_value(bit_value)))
    IN  [k \in 1..Len(hits) |-> bit_to_vlan(check_value(hits[k]), group).ret]

UpperHexClass == {HexUpper[i] : i \in 1..16}

\* ^([0-9A-F]{2})( [0-9A-F]{2}){BYTES_PER_GROUP - 1} over the first n characters
RegexBody(s, n) ==
    /\ n = 3 * BYTES_PER_GROUP - 1
    /\ \A p \in 1..n : IF p % 3 = 0 THEN s[p] = " " ELSE s[p] \in UpperHexClass

\* re.match of VLAN_TRUNK_STRING_REGEX: without re.MULTILINE, $ matches at the
\* end of the string and also just before a newline that ends the string
is_valid_vlan_trunk_string(s) ==
    \/ RegexBody(s, Len(s))
    \/ Len(s) >= 1 /\ s[Len(s)] = "\n" /\ RegexBody(s, Len(s) - 1)

\* reverse_bits without the zfill to bit_width
reverse_bits_unpadded(input_value, bit_width) ==
    IF input_value.neg THEN Raise("ValueError")
    ELSE int_base2(Reversed(bin_lstrip(input_value)))

reverse_bits(input_value, bit_width) ==
    IF input_value.neg THEN Raise("ValueError")
    ELSE LET bit_string == bin_lstrip(input_value)
             padded_string == zfill(bit_string, bit_width)
             reversed_bit_string == Reversed(padded_string)
         IN  int_base2(reversed_bit_string)


\* ------------------------------------------------------------------------
\* class VlanTrunkModeList: [group, value].  A method returns
\* [raised, self, ret]: the exception, the object afterwards, the result.
\* ------------------------------------------------------------------------
Returns(self, x) == [raised |-> "none", self |-> self, ret |-> x]

Raises(self, e) == [raised |-> e, self |-> self, ret |-> "None"]

VlanTrunkModeList(group) == [group |-> group, value |-> PyZero]

VlanTrunkModeList_add_vlan(self, vlan_id) ==
    IF vlan_in_group(vlan_id, self.group)
    THEN LET bit == vlan_bit(vlan_id)
         IN  IF bit.raised # "none" THEN Raises(self, bit.raised)
             ELSE Returns([self EXCEPT !.value = PyOr(self.value, bit.ret)], "None")
    ELSE Raises(self, "ValueError")

\* add_vlan_trunk_string assigning the decoded value instead of OR-ing it in
add_vlan_trunk_string_assign(self, vlan_string) ==
    IF is_valid_vlan_trunk_string(vlan_string)
    THEN LET int_value == int_base16(without_whitespace(vlan_string))
             reversed_int_value == reverse_bits(int_value.ret, VLAN_GROUP_SIZE)
         IN  Returns([self EXCEPT !.value = reversed_int_value.ret], "None")
    ELSE Raises(self, "ValueError")

\* add_vlan_trunk_string validating the string after it has updated the value
add_vlan_trunk_string_late_check(self, vlan_string) ==
    LET int_value == int_base16(without_whitespace(vlan_string))
        reversed_int_value == reverse_bits(int_value.ret, VLAN_GROUP_SIZE)
        updated == IF int_value.raised = "none"
                   THEN [self EXCEPT !.value = PyOr(self.value, reversed_int_value.ret)]
                   ELSE self
    IN  IF is_valid_vlan_trunk_string(vlan_string) THEN Returns(updated, "None")
        ELSE Raises(updated, "ValueError")

VlanTrunkModeList_add_vlan_trunk_string(self, vlan_string) ==
    IF is_valid_vlan_trunk_string(vlan_string)
    THEN LET int_value == int_base16(without_whitespace(vlan_string))
             reversed_int_value == reverse_bits(int_value.ret, VLAN_GROUP_SIZE)
         IN  IF int_value.raised # "none" THEN Raises(self, int_value.raised)
             ELSE IF reversed_int_value.raised # "none"
                  THEN Raises(self, reversed_int_value.raised)
             ELSE Returns([self EXCEPT !.value = PyOr(self.value, reversed_int_value.ret)],
                          "None")
    ELSE Raises(self, "ValueError")

\* get_vlan_trunk_string without the reversal of the bits
get_vlan_trunk_string_unreversed(self) ==
    LET byte_values == to_bytes(self.value, BYTES_PER_GROUP)
        hex_string == str_upper(bytes_hex(byte_values.ret))
        hex_list == [k \in 1..(Len(hex_string) \div 2) |->
                        <<hex_string[2 * k - 1], hex_string[2 * k]>>]
    IN  IF byte_values.raised # "none" THEN Raises(self, byte_values.raised)
        ELSE Returns(self, join_space(hex_list))

VlanTrunkModeList_get_vlan_trunk_string(self) ==
    LET reversed == reverse_bits(self.value, VLAN_GROUP_SIZE)
        byte_values == to_bytes(reversed.ret, BYTES_PER_GROUP)
        hex_string == str_upper(bytes_hex(byte_values.ret))
        hex_list == [k \in 1..(Len(hex_string) \div 2) |->
                        <<hex_string[2 * k - 1], hex_string[2 * k]>>]
    IN  IF reversed.raised # "none" THEN Raises(self, reversed.raised)
        ELSE IF byte_values.raised # "none" THEN Raises(self, byte_values.raised)
        ELSE Returns(self, join_space(hex_list))

VlanTrunkModeList_has_vlan(self, vlan_id) ==
    LET bit == vlan_bit(vlan_id)
    IN  IF bit.raised # "none" THEN Raises(self, bit.raised)
        ELSE Returns(self, PyBool(PyAnd(bit.ret, self.value)))

VlanTrunkModeList_vlans(self) == bits_to_vlans(self.value, self.group)

\* remove_vlan without the vlan_in_group test
remove_vlan_unchecked(self, vlan_id) ==
    LET bit == vlan_bit(vlan_id)
    IN  IF bit.raised # "none" THEN Raises(self, bit.raised)
        ELSE Returns([self EXCEPT !.value = PyAnd(self.value, PyNot(bit.ret))], "None")

VlanTrunkModeList_remove_vlan(self, vlan_id) ==
    IF vlan_in_group(vlan_id, self.group)
    THEN LET bit == vlan_bit(vlan_id)
         IN  IF bit.raised # "none" THEN Raises(self, bit.raised)
             ELSE Returns([self EXCEPT !.value = PyAnd(self.value, PyNot(bit.ret))], "None")
    ELSE Returns(self, "None")

\* ------------------------------------------------------------------------
\* class SnmpVlanTrunk: _trunk_mode_lists, a function from the group ids to
\* the VlanTrunkModeList of each
\* ------------------------------------------------------------------------
SnmpVlanTrunk == [group_id \in 0..(VLAN_GROUP_COUNT - 1) |-> VlanTrunkModeList(group_id)]

get_group_instance(self, group) ==
    IF group \in DOMAIN self THEN Ok(group) ELSE Raise("ValueError")

get_group_instance_from_vlan(self, vlan_id) ==
    LET group == group_for_vlan(vlan_id)
    IN  IF group.raised # "none" THEN Raise(group.raised)
        ELSE get_group_instance(self, group.ret)

\* the outcome r of a method of the instance at key, seen from the trunk
Delegated(self, key, r) ==
    [raised |-> r.raised, self |-> [self EXCEPT ![key] = r.self], ret |-> r.ret]

SnmpVlanTrunk_add_vlan(self, vlan_id) ==
    LET instance == get_group_instance_from_vlan(self, vlan_id)
    IN  IF instance.raised # "none" THEN Raises(self, instance.raised)
        ELSE Delegated(self, instance.ret,
                       VlanTrunkModeList_add_vlan(self[instance.ret], vlan_id))

SnmpVlanTrunk_add_vlan_trunk_string(self, vlan_string, group) ==
    LET instance == get_group_instance(self, group)
    IN  IF instance.raised # "none" THEN Raises(self, instance.raised)
        ELSE Delegated(self, instance.ret,
                       VlanTrunkModeList_add_vlan_trunk_string(self[instance.ret], vlan_string))

SnmpVlanTrunk_get_vlan_trunk_string(self, group) ==
    LET instance == get_group_instance(self, group)
    IN  IF instance.raised # "none" THEN Raises(self, instance.raised)
        ELSE Delegated(self, instance.ret,
                       VlanTrunkModeList_get_vlan_trunk_string(self[instance.ret]))

SnmpVlanTrunk_has_vlan(self, vlan_id) ==
    LET instance == get_group_instance_from_vlan(self, vlan_id)
    IN  IF instance.raised # "none" THEN Raises(self, instance.raised)
        ELSE Delegated(self, instance.ret,
                       VlanTrunkModeList_has_vlan(self[instance.ret], vlan_id))

SnmpVlanTrunk_remove_vlan(self, vlan_id) ==
    LET instance == get_group_instance_from_vlan(self, vlan_id)
    IN  IF instance.raised # "none" THEN Raises(self, instance.raised)
        ELSE Delegated(self, instance.ret,
                       VlanTrunkModeList_remove_vlan(self[instance.ret], vlan_id))

SnmpVlanTrunk_vlans(self) == [group \in DOMAIN self |-> VlanTrunkModeList_vlans(self[group])]

\* ------------------------------------------------------------------------
\* Inputs of the calls
\* ------------------------------------------------------------------------
\* a well-formed wire string, every byte 00 but byte k (1-based), which is hi lo
WireWith(k, hi, lo) ==
    [p \in 1..(3 * BYTES_PER_GROUP - 1) |->
        IF p % 3 = 0 THEN " "
        ELSE IF (p - 1) \div 3 + 1 # k THEN "0"
        ELSE IF p % 3 = 1 THEN hi ELSE lo]

\* the self-test's string: the first VLAN of a group
FirstWire == WireWith(1, "8", "0")

\* the last VLAN of a group
LastWire == WireWith(BYTES_PER_GROUP, "0", "1")

ZeroWire == WireWith(1, "0", "0")

\* s with c inserted before position p
InsertAt(s, p, c) == SubSeq(s, 1, p - 1) \o <<c>> \o SubSeq(s, p, Len(s))

GoodWires == {ZeroWire, FirstWire, LastWire}

\* one token short, a lower-case digit, a double space, trailing and leading
\* white space
BadWires ==
    { SubSeq(FirstWire, 1, 3 * (BYTES_PER_GROUP - 1) - 1),
      WireWith(1, "8", "a"),
      InsertAt(FirstWire, 3, " "),
      FirstWire \o <<" ">>,
      FirstWire \o <<"\n">>,
      <<" ">> \o FirstWire }

WireInputs == GoodWires \cup BadWires

\* the ends of the valid range and the border between groups 0 and 1
VlanInputs ==
    {MIN_VLAN - 1, MIN_VLAN, VLAN_GROUP_SIZE, VLAN_GROUP_SIZE + 1, MAX_VLAN, MAX_VLAN + 1}

\* the first and the last group, and the group ids next to the valid ones
GroupInputs == {-1, 0, VLAN_GROUP_COUNT - 1, VLAN_GROUP_COUNT}

Groups == 0..(VLAN_GROUP_COUNT - 1)

\* ids around both borders of group g, and the ends of the valid range
ListVlanInputs(g) ==
    {g * VLAN_GROUP_SIZE + d : d \in {-1, 0, 1, VLAN_GROUP_SIZE, VLAN_GROUP_SIZE + 1}}
        \cup {MAX_VLAN, MAX_VLAN + 1}

ListWireInputs == {FirstWire, LastWire, WireWith(1, "8", "a")}

\* ------------------------------------------------------------------------
\* State
\* ------------------------------------------------------------------------
VARIABLES
    trunk,      \* an SnmpVlanTrunk
    list,       \* a VlanTrunkModeList used on its own
    fresh,      \* a second VlanTrunkModeList, of the group of list
    wire,       \* the string the caller holds from get_vlan_trunk_string
    added,      \* the VLAN ids the caller has added to list
    idx,        \* the bit index the caller works with
    pc,         \* the caller's position in its script
    last        \* the last call made, as a Called... record

vars == <<trunk, list, fresh, wire, added, idx, pc, last>>

\* The record of a call: its name, its arguments, the exception it raised
\* ("none" when it returned) and, where it returned a value, that value.
NoCall == [op |-> "new", raised |-> "none"]

CalledVlan(op, vlan_id, r) == [op |-> op, vlan_id |-> vlan_id, raised |-> r.raised]

CalledVlanRet(op, vlan_id, r) ==
    IF r.raised = "none"
    THEN [op |-> op, vlan_id |-> vlan_id, raised |-> r.raised, ret |-> r.ret]
    ELSE CalledVlan(op, vlan_id, r)

CalledString(op, vlan_string, r) ==
    [op |-> op, vlan_string |-> vlan_string, raised |-> r.raised]

CalledStringGroup(op, vlan_string, group, r) ==
    [op |-> op, vlan_string |-> vlan_string, group |-> group, raised |-> r.raised]

CalledGroupRet(op, group, r) ==
    IF r.raised = "none"
    THEN [op |-> op, group |-> group, raised |-> r.raised, ret |-> r.ret]
    ELSE [op |-> op, group |-> group, raised |-> r.raised]

CalledRet(op, r) ==
    IF r.raised = "none"
    THEN [op |-> op, raised |-> r.raised, ret |-> r.ret]
    ELSE [op |-> op, raised |-> r.raised]

\* ------------------------------------------------------------------------
\* Spec: any sequence of calls on one SnmpVlanTrunk
\* ------------------------------------------------------------------------
Init ==
    /\ trunk = SnmpVlanTrunk
    /\ list = VlanTrunkModeList(0)
    /\ fresh = VlanTrunkModeList(0)
    /\ wire = <<>>
    /\ added = {}
    /\ idx = 0
    /\ pc = "trunk"
    /\ last = NoCall

AddVlan ==
    \E vlan_id \in VlanInputs :
        \E r \in {SnmpVlanTrunk_add_vlan(trunk, vlan_id)} :
            /\ trunk' = r.self
            /\ last' = CalledVlan("add_vlan", vlan_id, r)
            /\ UNCHANGED <<list, fresh, wire, added, idx, pc>>

AddVlanTrunkString ==
    \E vlan_string \in WireInputs, group \in GroupInputs :
        \E r \in {SnmpVlanTrunk_add_vlan_trunk_string(trunk, vlan_string, group)} :
            /\ trunk' = r.self
            /\ last' = CalledStringGroup("add_vlan_trunk_string", vlan_string, group, r)
            /\ UNCHANGED <<list, fresh, wire, added, idx, pc>>

GetVlanTrunkString ==
    \E group \in GroupInputs :
        \E r \in {SnmpVlanTrunk_get_vlan_trunk_string(trunk, group)} :
            /\ trunk' = r.self
            /\ last' = CalledGroupRet("get_vlan_trunk_string", group, r)
            /\ UNCHANGED <<list, fresh, wire, added, idx, pc>>

HasVlan ==
    \E vlan_id \in VlanInputs :
        \E r \in {SnmpVlanTrunk_has_vlan(trunk, vlan_id)} :
            /\ trunk' = r.self
            /\ last' = CalledVlanRet("has_vlan", vlan_id, r)
            /\ UNCHANGED <<list, fresh, wire, added, idx, pc>>

RemoveVlan ==
    \E vlan_id \in VlanInputs :
        \E r \in {SnmpVlanTrunk_remove_vlan(trunk, vlan_id)} :
            /\ trunk' = r.self
            /\ last' = CalledVlan("remove_vlan", vlan_id, r)
            /\ UNCHANGED <<list, fresh, wire, added, idx, pc>>

Next ==
    \/ AddVlan
    \/ AddVlanTrunkString
    \/ GetVlanTrunkString
    \/ HasVlan
    \/ RemoveVlan

Spec == Init /\ [][Next]_vars

\* ------------------------------------------------------------------------
\* SpecList: any sequence of calls on one VlanTrunkModeList of any group
\* ------------------------------------------------------------------------
ListInit ==
    /\ list \in {VlanTrunkModeList(g) : g \in Groups}
    /\ trunk = SnmpVlanTrunk
    /\ fresh = VlanTrunkModeList(0)
    /\ wire = <<>>
    /\ added = {}
    /\ idx = 0
    /\ pc = "list"
    /\ last = NoCall

ListAddVlan ==
    \E vlan_id \in ListVlanInputs(list.group) :
        \E r \in {VlanTrunkModeList_add_vlan(list, vlan_id)} :
            /\ list' = r.self
            /\ last' = CalledVlan("list.add_vlan", vlan_id, r)
            /\ UNCHANGED <<trunk, fresh, wire, added, idx, pc>>

ListAddVlanTrunkString ==
    \E vlan_string \in ListWireInputs :
        \E r \in {VlanTrunkModeList_add_vlan_trunk_string(list, vlan_string)} :
            /\ list' = r.self
            /\ last' = CalledString("list.add_vlan_trunk_string", vlan_string, r)
            /\ UNCHANGED <<trunk, fresh, wire, added, idx, pc>>

ListRemoveVlan ==
    \E vlan_id \in ListVlanInputs(list.group) :
        \E r \in {VlanTrunkModeList_remove_vlan(list, vlan_id)} :
            /\ list' = r.self
            /\ last' = CalledVlan("list.remove_vlan", vlan_id, r)
            /\ UNCHANGED <<trunk, fresh, wire, added, idx, pc>>

ListNext ==
    \/ ListAddVlan
    \/ ListAddVlanTrunkString
    \/ ListRemoveVlan

SpecList == ListInit /\ [][ListNext]_vars

\* ------------------------------------------------------------------------
\* SpecRoundTrip: a caller adds VLANs of one group to a new VlanTrunkModeList,
\* gets its string, and adds that string to a second, new list of the group
\* ------------------------------------------------------------------------
\* how many ids at each end of a group the caller draws from
Spread == 2

\* the valid ids of group g among the first Spread and the last Spread ids of
\* the group and the last Spread ids of the valid range
RoundTripVlans(g) ==
    LET first == g * VLAN_GROUP_SIZE + 1
        end == (g + 1) * VLAN_GROUP_SIZE
    IN  {v \in (first..(first + Spread - 1)) \cup ((end - Spread + 1)..end)
                \cup ((MAX_VLAN - Spread + 1)..MAX_VLAN) :
            /\ group_for_vlan(v).raised = "none"
            /\ group_for_vlan(v).ret = g}

RoundTripInit ==
    /\ \E g \in Groups :
        /\ list = VlanTrunkModeList(g)
        /\ fresh = VlanTrunkModeList(g)
    /\ trunk = SnmpVlanTrunk
    /\ wire = <<>>
    /\ added = {}
    /\ idx = 0
    /\ pc = "adding"
    /\ last = NoCall

RoundTripAdd ==
    /\ pc = "adding"
    /\ \E vlan_id \in RoundTripVlans(list.group) :
        \E r \in {VlanTrunkModeList_add_vlan(list, vlan_id)} :
            /\ list' = r.self
            /\ added' = IF r.raised = "none" THEN added \cup {vlan_id} ELSE added
            /\ last' = CalledVlan("list.add_vlan", vlan_id, r)
    /\ UNCHANGED <<trunk, fresh, wire, idx, pc>>

RoundTripExport ==
    /\ pc = "adding"
    /\ \E r \in {VlanTrunkModeList_get_vlan_trunk_string(list)} :
           /\ wire' = IF r.raised = "none" THEN r.ret ELSE wire
           /\ pc' = IF r.raised = "none" THEN "exported" ELSE "failed"
           /\ last' = CalledRet("list.get_vlan_trunk_string", r)
    /\ UNCHANGED <<trunk, list, fresh, added, idx>>

RoundTripImport ==
    /\ pc = "exported"
    /\ \E r \in {VlanTrunkModeList_add_vlan_trunk_string(fresh, wire)} :
           /\ fresh' = r.self
           /\ pc' = IF r.raised = "none" THEN "done" ELSE "failed"
           /\ last' = CalledString("fresh.add_vlan_trunk_string", wire, r)
    /\ UNCHANGED <<trunk, list, wire, added, idx>>

RoundTripNext ==
    \/ RoundTripAdd
    \/ RoundTripExport
    \/ RoundTripImport

SpecRoundTrip == RoundTripInit /\ [][RoundTripNext]_vars

\* ------------------------------------------------------------------------
\* SpecBitOrder: a caller sets one bit of a new VlanTrunkModeList, with
\* add_vlan or with the string of that bit, and gets the list's string; or
\* gets the string of the new list
\* ------------------------------------------------------------------------
\* the string of bit index i: byte i div 8 has its bit 7 - i mod 8 set, bit 7
\* the most significant, and every other byte is 00
OneBitWire(i) ==
    LET byte == 2 ^ (7 - (i % 8))
    IN  WireWith((i \div 8) + 1, HexUpper[(byte \div 16) + 1], HexUpper[(byte % 16) + 1])

BitOrderInit ==
    /\ list \in {VlanTrunkModeList(g) : g \in Groups}
    /\ idx \in 0..(VLAN_GROUP_SIZE - 1)
    /\ trunk = SnmpVlanTrunk
    /\ fresh = VlanTrunkModeList(0)
    /\ wire = <<>>
    /\ added = {}
    /\ pc = "new"
    /\ last = NoCall

BitOrderAdd ==
    /\ pc = "new"
    /\ LET vlan_id == list.group * VLAN_GROUP_SIZE + idx + 1
           r == VlanTrunkModeList_add_vlan(list, vlan_id)
       IN  /\ list' = r.self
           /\ pc' = IF r.raised = "none" THEN "set" ELSE "rejected"
           /\ last' = CalledVlan("list.add_vlan", vlan_id, r)
    /\ UNCHANGED <<trunk, fresh, wire, added, idx>>

BitOrderImport ==
    /\ pc = "new"
    /\ \E r \in {VlanTrunkModeList_add_vlan_trunk_string(list, OneBitWire(idx))} :
           /\ list' = r.self
           /\ pc' = IF r.raised = "none" THEN "set" ELSE "failed"
           /\ last' = CalledString("list.add_vlan_trunk_string", OneBitWire(idx), r)
    /\ UNCHANGED <<trunk, fresh, wire, added, idx>>

BitOrderExport ==
    /\ pc \in {"new", "set"}
    /\ \E r \in {VlanTrunkModeList_get_vlan_trunk_string(list)} :
           /\ wire' = IF r.raised = "none" THEN r.ret ELSE wire
           /\ pc' = IF r.raised # "none" THEN "failed"
                    ELSE IF pc = "new" THEN "exported_empty" ELSE "exported"
           /\ last' = CalledRet("list.get_vlan_trunk_string", r)
    /\ UNCHANGED <<trunk, list, fresh, added, idx>>

BitOrderNext ==
    \/ BitOrderAdd
    \/ BitOrderImport
    \/ BitOrderExport

SpecBitOrder == BitOrderInit /\ [][BitOrderNext]_vars

\* ------------------------------------------------------------------------
\* Properties
\* ------------------------------------------------------------------------
\* the ids a VlanTrunkModeList reports in vlans
Members(l) ==
    LET vlan_list == VlanTrunkModeList_vlans(l)
    IN  {vlan_list[i] : i \in 1..Len(vlan_list)}

SetMin(S) == CHOOSE m \in S : \A x \in S : m <= x

\* sorted(S)
RECURSIVE SortedSeq(_)
SortedSeq(S) == IF S = {} THEN <<>> ELSE <<SetMin(S)>> \o SortedSeq(S \ {SetMin(S)})

\* the grammar of the wire string: BYTES_PER_GROUP tokens of two characters of
\* 0-9A-F, one space between two tokens, and nothing else
StrictWire(s) ==
    /\ Len(s) = 3 * BYTES_PER_GROUP - 1
    /\ \A p \in 1..Len(s) :
        IF p % 3 = 0 THEN s[p] = " "
        ELSE s[p] \in {"0", "1", "2", "3", "4", "5", "6", "7", "8", "9",
                       "A", "B", "C", "D", "E", "F"}

\* the VLANs of group g that a wire string of that grammar encodes: bit index i
\* is bit 7 - i mod 8 of byte i div 8
WireVlans(s, g) ==
    LET byte(k) == 16 * HexVal(s[3 * k + 1]) + HexVal(s[3 * k + 2])
    IN  {g * VLAN_GROUP_SIZE + i + 1 :
            i \in {j \in 0..(VLAN_GROUP_SIZE - 1) :
                    (byte(j \div 8) \div (2 ^ (7 - (j % 8)))) % 2 = 1}}

\* C1: adding each member of a set S of valid VLAN ids of one group to a new
\* store, getting its string and adding the string to a second new store of the
\* group leaves that store with vlans = sorted(S); no step of it fails
C1_RoundTrip ==
    /\ pc # "failed"
    /\ pc = "done" => VlanTrunkModeList_vlans(fresh) = SortedSeq(added)

C1_Witness ==
    /\ pc = "done"
    /\ Cardinality(added) >= 3
    /\ \E v \in added : v = fresh.group * VLAN_GROUP_SIZE + 1

\* C3: a store with only bit i set lists the one VLAN g*1024+i+1, whether the
\* bit was set by add_vlan or by the string whose byte i div 8 has bit 7 - i mod 8
\* set, and its string is that string; the string of a new store is 128 tokens
\* 00, and the string of the first VLAN of the group is 80 and 127 tokens 00
C3_BitOrder ==
    /\ pc # "failed"
    /\ pc \in {"set", "exported"} =>
        /\ list.value = PyInt({idx})
        /\ VlanTrunkModeList_vlans(list) = <<list.group * VLAN_GROUP_SIZE + idx + 1>>
    /\ pc = "exported" => wire = OneBitWire(idx)
    /\ pc = "exported" /\ idx = 0 => wire = FirstWire
    /\ pc = "exported_empty" => wire = ZeroWire

C3_Witness ==
    /\ pc = "exported"
    /\ idx = VLAN_GROUP_SIZE - 1
    /\ list.group = VLAN_GROUP_COUNT - 1
    /\ wire = LastWire

\* C4: right after add_vlan(v) of a valid id v, has_vlan(v) returns True and v
\* is listed in vlans of its group; right after remove_vlan(v), has_vlan(v)
\* returns False and v is not listed
C4_AddRemoveThenHas ==
    last.op \in {"add_vlan", "remove_vlan"}
        /\ last.vlan_id >= MIN_VLAN /\ last.vlan_id <= MAX_VLAN =>
            LET has == SnmpVlanTrunk_has_vlan(trunk, last.vlan_id)
                group == group_for_vlan(last.vlan_id)
                listed == /\ group.raised = "none"
                          /\ group.ret \in DOMAIN trunk
                          /\ last.vlan_id \in Members(trunk[group.ret])
            IN  /\ last.raised = "none"
                /\ has.raised = "none"
                /\ has.ret = (last.op = "add_vlan")
                /\ listed = (last.op = "add_vlan")

C4_Witness ==
    /\ last.op = "remove_vlan"
    /\ last.vlan_id = VLAN_GROUP_SIZE
    /\ trunk[1].value # PyZero
    /\ trunk[0].value # PyZero

\* C5: add_vlan_trunk_string of a string of the grammar and a group g succeeds
\* and leaves group g with its previous members and the VLANs the string
\* encodes, and the other groups as they were; add_vlan(v), when it succeeds,
\* leaves the group of v with its previous members and v, and the other groups as
\* they were (each call adds a set that does not depend on the state, so the
\* members after a sequence of such calls do not depend on their order)
C5_ImportIsUnion ==
    [][ /\ (last'.op = "add_vlan_trunk_string" /\ last'.group \in Groups
                /\ StrictWire(last'.vlan_string)) =>
            /\ last'.raised = "none"
            /\ Members(trunk'[last'.group]) =
                    Members(trunk[last'.group])
                        \cup WireVlans(last'.vlan_string, last'.group)
            /\ \A g \in Groups \ {last'.group} : trunk'[g] = trunk[g]
        /\ (last'.op = "add_vlan" /\ last'.raised = "none") =>
            /\ Members(trunk'[group_for_vlan(last'.vlan_id).ret]) =
                    Members(trunk[group_for_vlan(last'.vlan_id).ret])
                        \cup {last'.vlan_id}
            /\ \A g \in Groups \ {group_for_vlan(last'.vlan_id).ret} :
                    trunk'[g] = trunk[g]
      ]_vars

C5_Witness ==
    /\ last.op = "add_vlan_trunk_string"
    /\ last.group = VLAN_GROUP_COUNT - 1
    /\ last.vlan_string = FirstWire
    /\ last.raised = "none"
    /\ Cardinality(trunk[last.group].value.bits) >= 3

\* C6: a call on the SnmpVlanTrunk that raises leaves all four groups as they
\* were
C6_FailureLeavesMasks ==
    [][last'.raised # "none" => trunk' = trunk]_vars

C6_Witness ==
    /\ last.op = "add_vlan_trunk_string"
    /\ last.raised = "ValueError"
    /\ last.group \in Groups
    /\ trunk[last.group].value # PyZero

\* C7: remove_vlan(v) on a VlanTrunkModeList whose group does not satisfy
\* vlan_in_group(v, group) returns without raising and leaves the value as it
\* was
C7_RemoveOutOfGroup ==
    [][ (last'.op = "list.remove_vlan" /\ ~vlan_in_group(last'.vlan_id, list.group)) =>
            /\ last'.raised = "none"
            /\ list' = list
      ]_vars

C7_Witness ==
    /\ last.op = "list.remove_vlan"
    /\ ~vlan_in_group(last.vlan_id, list.group)
    /\ last.vlan_id >= MIN_VLAN /\ last.vlan_id <= MAX_VLAN
    /\ Cardinality(list.value.bits) >= 2

\* C8: the value of every group is an int in 0 .. 2^1024 - 1 (not negative, no
\* bit at index 1024 or above), get_vlan_trunk_string of the group does not
\* raise, and its result satisfies is_valid_vlan_trunk_string
C8_MaskWidth ==
    \A g \in Groups :
        /\ ~trunk[g].value.neg
        /\ \A b \in trunk[g].value.bits : b >= 0 /\ b < VLAN_GROUP_SIZE
        /\ LET r == SnmpVlanTrunk_get_vlan_trunk_string(trunk, g)
           IN  /\ r.raised = "none"
               /\ is_valid_vlan_trunk_string(r.ret)

C8_Witness ==
    /\ last.op = "remove_vlan"
    /\ last.raised = "none"
    /\ (VLAN_GROUP_SIZE - 1) \in trunk[VLAN_GROUP_COUNT - 1].value.bits
    /\ (VLAN_GROUP_SIZE - 1) \in trunk[0].value.bits

\* C2: is_valid_vlan_trunk_string accepts exactly the strings of the grammar,
\* and add_vlan_trunk_string (of one of the four groups, so that only the
\* string can make it raise) raises ValueError for every other string
C2_StrictGrammar ==
    last.op = "add_vlan_trunk_string" /\ last.group \in Groups =>
        /\ is_valid_vlan_trunk_string(last.vlan_string) = StrictWire(last.vlan_string)
        /\ ~StrictWire(last.vlan_string) => last.raised = "ValueError"

\* C9: every id listed in vlans of group g is in 1..4094 and of group g, so
\* has_vlan(id) returns True and remove_vlan(id) does not raise
C9_ListedIdsValid ==
    \A g \in Groups : \A id \in Members(trunk[g]) :
        /\ id >= MIN_VLAN /\ id <= MAX_VLAN
        /\ group_for_vlan(id).ret = g
        /\ SnmpVlanTrunk_has_vlan(trunk, id).ret = TRUE
        /\ SnmpVlanTrunk_remove_vlan(trunk, id).raised = "none"

\* C10: an add_vlan(v) or remove_vlan(v) on a VlanTrunkModeList that returns
\* leaves every id other than v listed in vlans exactly if it was listed before
C10_OtherVlansUntouched ==
    [][ (last'.op \in {"list.add_vlan", "list.remove_vlan"} /\ last'.raised = "none") =>
            Members(list') \ {last'.vlan_id} = Members(list) \ {last'.vlan_id}
      ]_vars

=============================================================================
